---- MODULE Spec2Model ----
(***************************************************************************)
(* A model of webp-animator (src/src/lib.rs): the WebPAnimator builder,    *)
(* its constructor, metadata setters, add_webp_chunk / add_webp_image and  *)
(* write.                                                                  *)
(*                                                                         *)
(* A u32 is kept as two 16-bit limbs [hi, lo], so that every value of the  *)
(* type (up to 0xFFFFFFFF) and every overflow is represented exactly.      *)
(* Byte strings are sequences of 0..255.                                   *)
(***************************************************************************)
EXTENDS Integers, Sequences, FiniteSets

VARIABLES
    width, height,              \* self.width, self.height (u32)
    icc_profile,                \* self.icc_profile (bytes)
    exif_metadata,              \* self.exif_metadata (bytes)
    xmp_metadata,               \* self.xmp_metadata (bytes)
    frame_data,                 \* self.frame_data (bytes)
    background_bgra,            \* self.background_bgra (4 bytes)
    loop_count,                 \* self.loop_count (u16)
    has_alpha,                  \* self.has_alpha
    overflow_checks,            \* build profile: TRUE = arithmetic overflow panics (debug),
                                \* FALSE = it wraps (release)
    pc,                         \* "start" (no builder yet), "idle" (between calls),
                                \* "returned" (a call has returned its result),
                                \* "panicked" (a call unwound; the fields are as it left
                                \* them and the run ends), "noBuilder" (new failed)
    call,                       \* the call that has just run: its name and arguments
    result,                     \* what that call produced: "Ok", an error, or a panic
    out,                        \* what that call wrote to its sink
    accepted                    \* the frames add_webp_chunk has accepted, in call order

vars == <<width, height, icc_profile, exif_metadata, xmp_metadata, frame_data,
          background_bgra, loop_count, has_alpha, overflow_checks,
          pc, call, result, out, accepted>>

self_fields == <<width, height, icc_profile, exif_metadata, xmp_metadata, frame_data,
                 background_bgra, loop_count, has_alpha>>

-----------------------------------------------------------------------------
(* u32 / u64 arithmetic                                                    *)

Limb == 256 * 256

\* n as u32, for an integer 0 <= n < 2^31 (the truncation keeps the low 32 bits)
U32Of(n) == [hi |-> (n \div Limb) % Limb, lo |-> n % Limb]

U32_MAX == [hi |-> Limb - 1, lo |-> Limb - 1]

\* a > b
Gt(a, b) == a.hi > b.hi \/ (a.hi = b.hi /\ a.lo > b.lo)

\* a + b: whether it overflows u32, and its wrapped value
AddOverflows(a, b) == a.hi + b.hi + ((a.lo + b.lo) \div Limb) >= Limb
WrappingAdd(a, b) ==
    [hi |-> (a.hi + b.hi + ((a.lo + b.lo) \div Limb)) % Limb,
     lo |-> (a.lo + b.lo) % Limb]

\* x - 1: whether it overflows u32, and its wrapped value
Sub1Overflows(x) == x.hi = 0 /\ x.lo = 0
WrappingSub1(x) ==
    IF x.lo > 0 THEN [hi |-> x.hi, lo |-> x.lo - 1]
    ELSE IF x.hi > 0 THEN [hi |-> x.hi - 1, lo |-> Limb - 1]
    ELSE U32_MAX

\* x >> 1, x >> 24 (as an integer), x & 1 != 0
Shr1(x) == [hi |-> x.hi \div 2, lo |-> (x.hi % 2) * (Limb \div 2) + (x.lo \div 2)]
Shr24(x) == x.hi \div 256
IsOdd(x) == x.lo % 2 # 0

\* x.to_le_bytes() for a u32, and for a u16
to_le_bytes(x) == <<x.lo % 256, x.lo \div 256, x.hi % 256, x.hi \div 256>>
u16_to_le_bytes(n) == <<n % 256, n \div 256>>

\* The 32-bit product of two 16-bit limbs, as a u32
MulLimb(a, b) ==
    LET t0 == a * (b % 256)
        t1 == a * (b \div 256)
        s  == (t1 % 256) * 256 + (t0 % Limb)
    IN  [hi |-> (t1 \div 256) + (t0 \div Limb) + (s \div Limb), lo |-> s % Limb]

\* (a as u64) * (b as u64), as four 16-bit limbs, least significant first
MulU64(a, b) ==
    LET p00 == MulLimb(a.lo, b.lo)
        p01 == MulLimb(a.lo, b.hi)
        p10 == MulLimb(a.hi, b.lo)
        p11 == MulLimb(a.hi, b.hi)
        s1  == p00.hi + p01.lo + p10.lo
        s2  == p01.hi + p10.hi + p11.lo + (s1 \div Limb)
    IN  <<p00.lo, s1 % Limb, s2 % Limb, (p11.hi + (s2 \div Limb)) % Limb>>

-----------------------------------------------------------------------------
(* Byte strings of the format                                              *)

RIFF == <<82, 73, 70, 70>>
WEBPVP8X == <<87, 69, 66, 80, 86, 80, 56, 88>>
ANIM == <<65, 78, 73, 77>>
ANMF == <<65, 78, 77, 70>>
VP8L == <<86, 80, 56, 76>>
VP8_ == <<86, 80, 56, 32>>

\* The first n elements of s, and s without them (s[..n], s[n..])
Take(s, n) == SubSeq(s, 1, n)
Drop(s, n) == SubSeq(s, n + 1, Len(s))

RECURSIVE Flatten(_)
Flatten(ss) == IF ss = <<>> THEN <<>> ELSE Head(ss) \o Flatten(Tail(ss))

-----------------------------------------------------------------------------
(* Results                                                                 *)

Ok == "Ok"
InvalidDimensions == "InvalidDimensions"
InvalidDuration == "InvalidDuration"
UnrecognizedImage == "UnrecognizedImage"
Io == "Io"
PanicSliceIndex == "panic: slice index out of range"
PanicOverflow == "panic: arithmetic overflow"
PanicU24Assert == "panic: assertion failed: x >> 24 == 0"
Panics == {PanicSliceIndex, PanicOverflow, PanicU24Assert}

-----------------------------------------------------------------------------
(* u24_bytes                                                               *)

\* assert!(x >> 24 == 0)
u24_assertion(x) == Shr24(x) = 0

\* the three low bytes of x.to_le_bytes()
u24_bytes(x) == Take(to_le_bytes(x), 3)

\* An argument expression of a u24_bytes call: its (wrapped) value and whether
\* computing it overflowed.
Plain(x) == [v |-> x, ovf |-> FALSE]
Minus1(x) == [v |-> WrappingSub1(x), ovf |-> Sub1Overflows(x)]

\* What evaluating u24_bytes(arg) does: "Ok", or the panic it raises.
u24_outcome(arg) ==
    IF arg.ovf /\ overflow_checks THEN PanicOverflow
    ELSE IF ~u24_assertion(arg.v) THEN PanicU24Assert
    ELSE Ok

-----------------------------------------------------------------------------
(* WebPAnimator::new                                                       *)

MAX_DIMENSION == U32Of(16777216)

\* new with the area test reduced to area == 0 (the 32-bit bound forgotten)
new_AreaZeroOnly(params) ==
    IF Gt(params.width, MAX_DIMENSION) \/ Gt(params.height, MAX_DIMENSION)
    THEN [result |-> InvalidDimensions]
    ELSE IF MulU64(params.width, params.height) = <<0, 0, 0, 0>>
         THEN [result |-> InvalidDimensions]
         ELSE [result |-> Ok,
               width |-> params.width,
               height |-> params.height,
               icc_profile |-> <<>>,
               exif_metadata |-> <<>>,
               xmp_metadata |-> <<>>,
               frame_data |-> <<>>,
               background_bgra |-> params.background_bgra,
               loop_count |-> params.loop_count,
               has_alpha |-> params.has_alpha]

new(params) ==
    IF Gt(params.width, MAX_DIMENSION) \/ Gt(params.height, MAX_DIMENSION)
    THEN [result |-> InvalidDimensions]
    ELSE LET area == MulU64(params.width, params.height)
         IN  IF area = <<0, 0, 0, 0>> \/ area[3] # 0 \/ area[4] # 0
             THEN [result |-> InvalidDimensions]
             ELSE [result |-> Ok,
                   width |-> params.width,
                   height |-> params.height,
                   icc_profile |-> <<>>,
                   exif_metadata |-> <<>>,
                   xmp_metadata |-> <<>>,
                   frame_data |-> <<>>,
                   background_bgra |-> params.background_bgra,
                   loop_count |-> params.loop_count,
                   has_alpha |-> params.has_alpha]

-----------------------------------------------------------------------------
(* WebPAnimator::add_webp_chunk                                            *)

\* frame.unwrap_or(FrameRect { x: 0, y: 0, width: self.width, height: self.height })
\* An Option is a sequence of length 0 (None) or 1 (Some).
unwrap_or_canvas(frame) ==
    IF frame = <<>>
    THEN [x |-> U32Of(0), y |-> U32Of(0), width |-> width, height |-> height]
    ELSE frame[1]

\* The frame-rectangle condition, evaluated left to right with short-circuit ||:
\* "reject" when it is true, "accept" when it is false, or the overflow panic of
\* a build with overflow checks.
\* frame_check without the test of y's parity
frame_check_NoParityY(f) ==
    IF IsOdd(f.x) THEN "reject"
    ELSE IF overflow_checks /\ AddOverflows(f.x, f.width) THEN PanicOverflow
    ELSE IF Gt(WrappingAdd(f.x, f.width), width) THEN "reject"
    ELSE IF overflow_checks /\ AddOverflows(f.x, f.height) THEN PanicOverflow
    ELSE IF Gt(WrappingAdd(f.x, f.height), height) THEN "reject"
    ELSE "accept"

frame_check(f) ==
    IF IsOdd(f.x) \/ IsOdd(f.y) THEN "reject"
    ELSE IF overflow_checks /\ AddOverflows(f.x, f.width) THEN PanicOverflow
    ELSE IF Gt(WrappingAdd(f.x, f.width), width) THEN "reject"
    ELSE IF overflow_checks /\ AddOverflows(f.x, f.height) THEN PanicOverflow
    ELSE IF Gt(WrappingAdd(f.x, f.height), height) THEN "reject"
    ELSE "accept"

\* The u24_bytes writes into buf, in order; the first panic stops them and leaves
\* what was written before it.
RECURSIVE write_u24_fields(_, _)
write_u24_fields(buf, args) ==
    IF args = <<>> THEN [result |-> Ok, buf |-> buf]
    ELSE IF u24_outcome(Head(args)) # Ok
         THEN [result |-> u24_outcome(Head(args)), buf |-> buf]
         ELSE write_u24_fields(buf \o u24_bytes(Head(args).v), Tail(args))

\* anmf_fields with the offsets written in pixels (the >> 1 forgotten)
anmf_fields_NoHalving(f, duration) ==
    <<Plain(f.x), Plain(f.y), Minus1(f.width), Minus1(f.height), Plain(duration)>>

\* The arguments of the five u24_bytes calls of add_webp_chunk
anmf_fields(f, duration) ==
    <<Plain(Shr1(f.x)), Plain(Shr1(f.y)), Minus1(f.width), Minus1(f.height),
      Plain(duration)>>

\* The whole call: its result and self.frame_data after it.
add_webp_chunk(data, frame, duration) ==
    IF Len(data) < 4 THEN [result |-> PanicSliceIndex, frame_data |-> frame_data]
    ELSE IF Take(data, 4) \notin {VP8L, VP8_}
    THEN [result |-> UnrecognizedImage, frame_data |-> frame_data]
    ELSE IF Shr24(duration) # 0
    THEN [result |-> InvalidDuration, frame_data |-> frame_data]
    ELSE LET f == unwrap_or_canvas(frame)
             chk == frame_check(f)
         IN  IF chk = "reject"
             THEN [result |-> InvalidDimensions, frame_data |-> frame_data]
             ELSE IF chk # "accept"
             THEN [result |-> chk, frame_data |-> frame_data]
             ELSE LET chunk_len == Len(data) + 16
                      head == frame_data \o ANMF \o to_le_bytes(U32Of(chunk_len))
                      w == write_u24_fields(head, anmf_fields(f, duration))
                  IN  IF w.result # Ok
                      THEN [result |-> w.result, frame_data |-> w.buf]
                      ELSE [result |-> Ok, frame_data |-> w.buf \o <<0>> \o data]

\* add_webp_image: &data[12..], then add_webp_chunk
add_webp_image(data, frame, duration) ==
    IF Len(data) < 12 THEN [result |-> PanicSliceIndex, frame_data |-> frame_data]
    ELSE add_webp_chunk(Drop(data, 12), frame, duration)

-----------------------------------------------------------------------------
(* WebPAnimator::write                                                     *)

WEBP_HEADER_LEN == 4
VP8X_HEADER_LEN == 18
ANIM_HEADER_LEN == 14
\* TOTAL_HEADER_LEN without the "WEBP" tag
TOTAL_HEADER_LEN_NoWebp == VP8X_HEADER_LEN + ANIM_HEADER_LEN
TOTAL_HEADER_LEN == WEBP_HEADER_LEN + VP8X_HEADER_LEN + ANIM_HEADER_LEN

\* The VP8X flags byte (the flags are distinct bits, so | is +)
vp8x_flags ==
    (IF icc_profile # <<>> THEN 32 ELSE 0)
    + (IF has_alpha THEN 16 ELSE 0)
    + (IF exif_metadata # <<>> THEN 8 ELSE 0)
    + (IF xmp_metadata # <<>> THEN 4 ELSE 0)
    + 2

\* riff_size without the XMP block
riff_size_NoXmp ==
    TOTAL_HEADER_LEN + Len(frame_data) + Len(icc_profile) + Len(exif_metadata)

\* The size field: the usize sum, as u32
riff_size ==
    TOTAL_HEADER_LEN + Len(frame_data) + Len(icc_profile)
    + Len(exif_metadata) + Len(xmp_metadata)

\* The argument of each writer.write_all call, in the order of the calls
write_pieces ==
    <<RIFF,
      to_le_bytes(U32Of(riff_size)),
      WEBPVP8X,
      to_le_bytes(U32Of(10)),
      <<vp8x_flags>>,
      <<0, 0, 0>>,
      u24_bytes(WrappingSub1(width)),
      u24_bytes(WrappingSub1(height)),
      icc_profile,
      ANIM,
      to_le_bytes(U32Of(6)),
      background_bgra,
      u16_to_le_bytes(loop_count),
      frame_data,
      exif_metadata,
      xmp_metadata>>

NumWrites == Len(write_pieces)

\* The write_all call (by position) whose argument panics, or NumWrites + 1
write_panic_at ==
    IF u24_outcome(Minus1(width)) # Ok THEN 7
    ELSE IF u24_outcome(Minus1(height)) # Ok THEN 8
    ELSE NumWrites + 1

write_panic ==
    IF u24_outcome(Minus1(width)) # Ok THEN u24_outcome(Minus1(width))
    ELSE u24_outcome(Minus1(height))

\* The whole call on a sink that accepts `sink` write_all calls and fails the
\* next one: its result and what the sink received.
write(sink) ==
    IF write_panic_at <= sink + 1
    THEN [result |-> write_panic, out |-> Flatten(Take(write_pieces, write_panic_at - 1))]
    ELSE IF sink < NumWrites
    THEN [result |-> Io, out |-> Flatten(Take(write_pieces, sink))]
    ELSE [result |-> Ok, out |-> Flatten(write_pieces)]

-----------------------------------------------------------------------------
(* Inputs                                                                  *)

\* The most frames a run accepts
MaxFrames == 2

\* Construction parameters of the builders the calls below run on (the canvas of
\* test_write scaled down, an odd width, the widest canvas with an odd height)
BACKGROUND == <<255, 255, 255, 255>>
CanvasParams ==
    {[width |-> U32Of(d[1]), height |-> U32Of(d[2]), background_bgra |-> BACKGROUND,
      loop_count |-> 0, has_alpha |-> FALSE] : d \in {<<4, 4>>, <<3, 4>>, <<16777216, 3>>}}

\* Construction parameters for the constructor alone: both sides of every bound
DimValues ==
    {U32Of(0), U32Of(1), U32Of(3), U32Of(4), U32Of(255), U32Of(256), U32Of(65535),
     U32Of(65536), U32Of(16777215), U32Of(16777216), U32Of(16777217), U32_MAX}
NewParams ==
    [width : DimValues, height : DimValues, background_bgra : {BACKGROUND},
     loop_count : {0}, has_alpha : BOOLEAN]

\* `data` of add_webp_chunk: both recognized tags, an unrecognized one, and a
\* slice shorter than a tag
Chunks == {VP8L, VP8_ \o <<9>>, <<86, 80, 56, 88>>, <<86, 80, 56>>}

\* `data` of add_webp_image: a 12-byte RIFF header and a chunk, a header alone,
\* and a slice shorter than the header
RiffHeader == RIFF \o <<12, 0, 0, 0>> \o <<87, 69, 66, 80>>
Images == {RiffHeader \o VP8L, RiffHeader, RIFF}

\* `frame`: None, or Some(rect). The rectangles: every pairing of an even, an
\* odd, a second even and a huge offset with a 4x4 size, and beside them sizes of
\* zero, a 2x2 rectangle off the origin, and odd offsets with other sizes.
Rect(x, y, w, h) == [x |-> U32Of(x), y |-> U32Of(y), width |-> U32Of(w), height |-> U32Of(h)]
FrameXs == {U32Of(0), U32Of(1), U32Of(2), [hi |-> 65535, lo |-> 65534]}
FrameYs == {U32Of(0), U32Of(1), U32Of(2), U32Of(33554432)}
FrameRects ==
    [x : FrameXs, y : FrameYs, width : {U32Of(4)}, height : {U32Of(4)}]
    \cup {Rect(0, 0, 0, 4), Rect(0, 0, 4, 0), Rect(2, 0, 2, 2),
          Rect(1, 0, 0, 4), Rect(0, 1, 2, 2), Rect(1, 1, 2, 0)}
Frames == {<<>>} \cup {<<r>> : r \in FrameRects}
ImageFrames == {<<>>, <<Rect(0, 2, 4, 4)>>, <<Rect(1, 0, 4, 4)>>}

\* `duration`: the largest accepted and the smallest rejected
Durations == {U32Of(16777215), U32Of(16777216)}

\* Metadata blocks
MetaValues == {<<>>, <<7>>}

-----------------------------------------------------------------------------
(* State machine                                                           *)

NoCall == [op |-> "none"]

\* The state before WebPAnimator::new: no builder yet
InitNew ==
    /\ pc = "start"
    /\ width = U32Of(0) /\ height = U32Of(0)
    /\ icc_profile = <<>> /\ exif_metadata = <<>> /\ xmp_metadata = <<>>
    /\ frame_data = <<>>
    /\ background_bgra = <<0, 0, 0, 0>> /\ loop_count = 0 /\ has_alpha = FALSE
    /\ overflow_checks \in BOOLEAN
    /\ call = NoCall /\ result = "none" /\ out = <<>> /\ accepted = <<>>

New ==
    /\ pc = "start"
    /\ \E params \in NewParams :
         LET r == new(params) IN
         /\ call' = [op |-> "new", params |-> params]
         /\ result' = r.result
         /\ IF r.result = Ok
            THEN /\ pc' = "idle"
                 /\ width' = r.width /\ height' = r.height
                 /\ icc_profile' = r.icc_profile
                 /\ exif_metadata' = r.exif_metadata
                 /\ xmp_metadata' = r.xmp_metadata
                 /\ frame_data' = r.frame_data
                 /\ background_bgra' = r.background_bgra
                 /\ loop_count' = r.loop_count
                 /\ has_alpha' = r.has_alpha
            ELSE /\ pc' = "noBuilder"
                 /\ UNCHANGED self_fields
    /\ UNCHANGED <<overflow_checks, out, accepted>>

\* The state after a successful WebPAnimator::new
Init ==
    /\ pc = "idle"
    /\ \E params \in CanvasParams :
         LET r == new(params) IN
         /\ r.result = Ok
         /\ width = r.width /\ height = r.height
         /\ icc_profile = r.icc_profile
         /\ exif_metadata = r.exif_metadata
         /\ xmp_metadata = r.xmp_metadata
         /\ frame_data = r.frame_data
         /\ background_bgra = r.background_bgra
         /\ loop_count = r.loop_count
         /\ has_alpha = r.has_alpha
    /\ overflow_checks \in BOOLEAN
    /\ call = NoCall /\ result = "none" /\ out = <<>> /\ accepted = <<>>

SetIccProfile(v) ==
    /\ pc = "idle"
    /\ icc_profile' = v
    /\ call' = [op |-> "set_icc_profile", data |-> v]
    /\ result' = Ok /\ pc' = "returned"
    /\ UNCHANGED <<width, height, exif_metadata, xmp_metadata, frame_data,
                   background_bgra, loop_count, has_alpha, overflow_checks, out, accepted>>

SetExifMetadata(v) ==
    /\ pc = "idle"
    /\ exif_metadata' = v
    /\ call' = [op |-> "set_exif_metadata", data |-> v]
    /\ result' = Ok /\ pc' = "returned"
    /\ UNCHANGED <<width, height, icc_profile, xmp_metadata, frame_data,
                   background_bgra, loop_count, has_alpha, overflow_checks, out, accepted>>

SetXmpMetadata(v) ==
    /\ pc = "idle"
    /\ xmp_metadata' = v
    /\ call' = [op |-> "set_xmp_metadata", data |-> v]
    /\ result' = Ok /\ pc' = "returned"
    /\ UNCHANGED <<width, height, icc_profile, exif_metadata, frame_data,
                   background_bgra, loop_count, has_alpha, overflow_checks, out, accepted>>

\* What an add call leaves behind: r is its outcome, chunk the slice
\* add_webp_chunk saw
AddFrame(op, data, chunk, frame, duration, r) ==
    /\ frame_data' = r.frame_data
    /\ call' = [op |-> op, data |-> data, frame |-> frame, duration |-> duration]
    /\ result' = r.result
    /\ pc' = IF r.result \in Panics THEN "panicked" ELSE "returned"
    /\ accepted' = IF r.result = Ok
                   THEN Append(accepted, [data |-> chunk, rect |-> unwrap_or_canvas(frame),
                                          duration |-> duration])
                   ELSE accepted
    /\ UNCHANGED <<width, height, icc_profile, exif_metadata, xmp_metadata,
                   background_bgra, loop_count, has_alpha, overflow_checks, out>>

AddWebpChunk(data, frame, duration) ==
    /\ pc = "idle"
    /\ Len(accepted) < MaxFrames
    /\ AddFrame("add_webp_chunk", data, data, frame, duration,
                add_webp_chunk(data, frame, duration))

AddWebpImage(data, frame, duration) ==
    /\ pc = "idle"
    /\ Len(accepted) < MaxFrames
    /\ AddFrame("add_webp_image", data, Drop(data, 12), frame, duration,
                add_webp_image(data, frame, duration))

\* Write that drains the frame-chunk buffer once it has written it
Write_Drains(sink) ==
    /\ pc = "idle"
    /\ LET r == write(sink) IN
       /\ out' = r.out
       /\ result' = r.result
       /\ pc' = IF r.result \in Panics THEN "panicked" ELSE "returned"
       /\ frame_data' = IF r.result = Ok THEN <<>> ELSE frame_data
    /\ call' = [op |-> "write", sink |-> sink]
    /\ UNCHANGED <<width, height, icc_profile, exif_metadata, xmp_metadata,
                   background_bgra, loop_count, has_alpha, overflow_checks, accepted>>

Write(sink) ==
    /\ pc = "idle"
    /\ LET r == write(sink) IN
       /\ out' = r.out
       /\ result' = r.result
       /\ pc' = IF r.result \in Panics THEN "panicked" ELSE "returned"
    /\ call' = [op |-> "write", sink |-> sink]
    /\ UNCHANGED <<self_fields, overflow_checks, accepted>>

\* The caller takes the call's result and goes on
Return ==
    /\ pc = "returned"
    /\ pc' = "idle"
    /\ call' = NoCall /\ result' = "none" /\ out' = <<>>
    /\ UNCHANGED <<self_fields, overflow_checks, accepted>>

Next ==
    \/ \E v \in MetaValues : SetIccProfile(v)
    \/ \E v \in MetaValues : SetExifMetadata(v)
    \/ \E v \in MetaValues : SetXmpMetadata(v)
    \/ \E data \in Chunks, frame \in Frames, duration \in Durations :
         AddWebpChunk(data, frame, duration)
    \/ \E data \in Images, frame \in ImageFrames, duration \in Durations :
         AddWebpImage(data, frame, duration)
    \/ \E sink \in 0..NumWrites : Write(sink)
    \/ Return

Spec == Init /\ [][Next]_vars

SpecNew == InitNew /\ [][New]_vars

-----------------------------------------------------------------------------
(* Reading the claims: integers and bytes as the format defines them       *)

\* The integer a u32 stands for (for values below 2^31)
Val(x) == x.hi * 65536 + x.lo

\* The integer a little-endian byte string stands for
RECURSIVE FromLe(_)
FromLe(b) == IF b = <<>> THEN 0 ELSE Head(b) + 256 * FromLe(Tail(b))

\* The k-byte little-endian encoding of the integer n
RECURSIVE IntLe(_, _)
IntLe(n, k) == IF k = 0 THEN <<>> ELSE <<n % 256>> \o IntLe(n \div 256, k - 1)

IsPrefix(s, t) == Len(s) <= Len(t) /\ SubSeq(t, 1, Len(s)) = s

AddOps == {"add_webp_chunk", "add_webp_image"}

\* The payload an add call hands to the frame accumulator, and its rectangle
PayloadOf(c) == IF c.op = "add_webp_image" THEN Drop(c.data, 12) ELSE c.data
RecognizedTag(p) == Take(p, 4) = <<86, 80, 56, 76>> \/ Take(p, 4) = <<86, 80, 56, 32>>
OddOffset(c) == c.frame # <<>> /\ (c.frame[1].x.lo % 2 = 1 \/ c.frame[1].y.lo % 2 = 1)

\* The ANMF chunk of a frame, as the format lays it out
ExpectedChunk(p, r, d) ==
    <<65, 78, 77, 70>> \o IntLe(16 + Len(p), 4)
    \o IntLe(Val(r.x) \div 2, 3) \o IntLe(Val(r.y) \div 2, 3)
    \o IntLe(Val(r.width) - 1, 3) \o IntLe(Val(r.height) - 1, 3)
    \o IntLe(Val(d), 3) \o <<0>> \o p

RECURSIVE ExpectedChunks(_)
ExpectedChunks(fs) ==
    IF fs = <<>> THEN <<>>
    ELSE ExpectedChunk(Head(fs).data, Head(fs).rect, Head(fs).duration)
         \o ExpectedChunks(Tail(fs))

FullCanvas(r) == r.x = U32Of(0) /\ r.y = U32Of(0) /\ r.width = width /\ r.height = height

-----------------------------------------------------------------------------
(* C1: an add-frame call that does not complete successfully (an error or a *)
(* panic) leaves every field of the builder as it was before the call.      *)
C1_FailedAddLeavesState ==
    [][(pc = "idle" /\ call'.op \in AddOps /\ result' # Ok)
        => UNCHANGED self_fields]_vars

(* C2: every accepted frame has even x and y and lies inside the canvas:    *)
(* x + width <= canvas width and y + height <= canvas height.               *)
C2_AcceptedFrameInsideCanvas ==
    \A i \in 1..Len(accepted) :
        LET r == accepted[i].rect IN
        /\ Val(r.x) % 2 = 0 /\ Val(r.y) % 2 = 0
        /\ Val(r.x) + Val(r.width) <= Val(width)
        /\ Val(r.y) + Val(r.height) <= Val(height)

(* C3: the assertion of u24_bytes never fires, in add-frame or in finalize. *)
C3_U24AssertionNeverFires == result # PanicU24Assert

\* 0 < x <= 0x1000000
DimInRange(x) == x.hi < 32768 /\ 0 < Val(x) /\ Val(x) <= 16777216
\* w * h <= 2^32 - 1 = 2 * 2147483647 + 1, by division (no product is formed)
ProductFitsU32(w, h) ==
    \/ w = 1
    \/ h <= 2 * (2147483647 \div w) + ((2 * (2147483647 % w) + 1) \div w)

(* C4: construction succeeds exactly when 0 < width <= 0x1000000,           *)
(* 0 < height <= 0x1000000 and width * height < 2^32; otherwise it fails    *)
(* with InvalidDimensions and there is no builder.                          *)
C4_NewSucceedsExactlyInRange ==
    call.op = "new" =>
        LET p == call.params
            valid == /\ DimInRange(p.width) /\ DimInRange(p.height)
                     /\ ProductFitsU32(Val(p.width), Val(p.height))
        IN  /\ (result = Ok) <=> valid
            /\ result = Ok => /\ pc = "idle"
                              /\ width = p.width /\ height = p.height
                              /\ frame_data = <<>>
            /\ result # Ok => result = InvalidDimensions /\ pc = "noBuilder"
C4_Witness ==
    /\ call.op = "new" /\ result = Ok
    /\ width = U32Of(16777216) /\ height = U32Of(255)

(* C5 as stated: an add-frame call whose explicit rectangle has an odd x or *)
(* an odd y fails with InvalidDimensions, whatever its other fields.        *)
C5_OddOffsetAlwaysInvalidDimensions ==
    (call.op \in AddOps /\ OddOffset(call)) => result = InvalidDimensions

(* C5 amended: an add-frame call whose explicit rectangle has an odd x or   *)
(* an odd y never succeeds and appends nothing; its result is the first      *)
(* failing check's: the slice panic for a payload shorter than its tag,      *)
(* UnrecognizedImage for an unrecognized tag, InvalidDuration for a duration *)
(* of 0x1000000 or more, and InvalidDimensions otherwise, whatever the       *)
(* rectangle's width and height and the builder's state.                     *)
C5_OddOffsetFirstFailureWins ==
    [][(pc = "idle" /\ call'.op \in AddOps /\ OddOffset(call'))
        => /\ frame_data' = frame_data
           /\ result' = IF Len(PayloadOf(call')) < 4 THEN PanicSliceIndex
                        ELSE IF ~RecognizedTag(PayloadOf(call')) THEN UnrecognizedImage
                        ELSE IF call'.duration.hi >= 256 THEN InvalidDuration
                        ELSE InvalidDimensions]_vars
C5_Witness ==
    /\ call.op = "add_webp_chunk" /\ OddOffset(call)
    /\ Len(call.data) >= 4 /\ RecognizedTag(call.data) /\ call.duration = U32Of(16777215)
    /\ call.frame[1].width = U32Of(0)
    /\ result = InvalidDimensions

(* C6: an add-frame call with frame = None on a builder whose canvas width  *)
(* or height is odd fails and appends nothing.                              *)
C6_DefaultFrameOnOddCanvasFails ==
    (call.op \in AddOps /\ call.frame = <<>>
     /\ (Val(width) % 2 = 1 \/ Val(height) % 2 = 1))
        => result # Ok

\* A finalize call that succeeded on a builder with no metadata and exactly two
\* accepted frames, both full-canvas, with payloads of one length
TwoFullCanvasFramesWritten ==
    /\ call.op = "write" /\ result = Ok
    /\ icc_profile = <<>> /\ exif_metadata = <<>> /\ xmp_metadata = <<>>
    /\ Len(accepted) = 2
    /\ FullCanvas(accepted[1].rect) /\ FullCanvas(accepted[2].rect)
    /\ Len(accepted[1].data) = Len(accepted[2].data)

(* C7 as stated: with no metadata and exactly two accepted full-canvas      *)
(* frames of payload_len bytes each, finalize writes the outer size          *)
(* 26 + 2 * (16 + payload_len) + 8.                                          *)
C7_OuterSizeTwoFrames_AsStated ==
    TwoFullCanvasFramesWritten
        => FromLe(SubSeq(out, 5, 8)) = 26 + 2 * (16 + Len(accepted[1].data)) + 8

(* C7 amended: with no metadata and exactly two accepted full-canvas frames *)
(* of payload_len bytes each, finalize writes the outer size                 *)
(* 36 + 2 * (24 + payload_len): 36 bytes of fixed headers and, per frame,    *)
(* an 8-byte chunk header, the 16-byte frame header and the payload.         *)
C7_OuterSizeTwoFrames ==
    TwoFullCanvasFramesWritten
        => FromLe(SubSeq(out, 5, 8)) = 36 + 2 * (24 + Len(accepted[1].data))
C7_Witness ==
    TwoFullCanvasFramesWritten /\ Len(accepted[1].data) = 5

(* C8: a successful add-frame call with payload p, rectangle (x, y, w, h)   *)
(* and duration d appends exactly "ANMF", the 4-byte length 16 + len(p), the *)
(* 3-byte fields x/2, y/2, w-1, h-1, d, a zero byte and p: 24 + len(p) bytes.*)
C8_AcceptedChunkBytes ==
    [][(pc = "idle" /\ call'.op \in AddOps /\ result' = Ok)
        => LET p == PayloadOf(call')
               r == IF call'.frame = <<>>
                    THEN [x |-> U32Of(0), y |-> U32Of(0), width |-> width, height |-> height]
                    ELSE call'.frame[1]
           IN  /\ frame_data' = frame_data \o ExpectedChunk(p, r, call'.duration)
               /\ Len(frame_data') = Len(frame_data) + 24 + Len(p)
               /\ FromLe(SubSeq(frame_data', Len(frame_data) + 5, Len(frame_data) + 8))
                    = 16 + Len(p)]_vars
C8_Witness ==
    /\ call.op = "add_webp_chunk" /\ result = Ok
    /\ call.frame = <<Rect(2, 0, 2, 2)>>
    /\ Len(accepted) = 2

(* C9: over setters, add-frame calls that succeed or return an error, and   *)
(* finalize calls, the frame-chunk buffer is append-only: each step keeps    *)
(* the old content as a prefix, only a successful add-frame extends it,      *)
(* and it is always the chunks of the accepted frames in call order.         *)
C9_FrameDataAppendOnly ==
    [][/\ IsPrefix(frame_data, frame_data')
       /\ pc' # "panicked" =>
            /\ frame_data' # frame_data => (call'.op \in AddOps /\ result' = Ok)
            /\ (call'.op \in AddOps /\ result' = Ok) =>
                   (accepted' # accepted /\ Len(frame_data') > Len(frame_data))
            /\ frame_data' = ExpectedChunks(accepted')]_vars
C9_Witness ==
    /\ call.op = "write" /\ result = Ok
    /\ Len(accepted) = 2 /\ accepted[1] # accepted[2]
    /\ icc_profile # <<>>
    /\ frame_data = ExpectedChunks(accepted)

(* C10: a finalize call whose sink accepts every write emits an outer size  *)
(* field equal to the bytes emitted after it: 36 fixed header bytes + the    *)
(* frame-chunk buffer + the ICC, EXIF and XMP blocks.                        *)
C10_OuterSizeIsBytesAfterField ==
    (call.op = "write" /\ result = Ok)
        => /\ FromLe(SubSeq(out, 5, 8)) = Len(out) - 8
           /\ Len(out) - 8 = 36 + Len(frame_data) + Len(icc_profile)
                                + Len(exif_metadata) + Len(xmp_metadata)
C10_Witness ==
    /\ call.op = "write" /\ result = Ok
    /\ icc_profile # <<>> /\ exif_metadata # <<>> /\ xmp_metadata # <<>>
    /\ Len(accepted) = 2

====
